---- MODULE Spec2Model ----
(***************************************************************************)
(* Model of osmium::geometry_error and osmium::geom::GeometryFactory       *)
(* (contrib/libosmium/osmium/geom/factory.hpp).                            *)
(*                                                                         *)
(* One engine (a GeometryFactory with its projection and its backend) is   *)
(* called by a caller, one create_* call at a time.  Every create_* call   *)
(* is synchronous, so it is one action: the action records the call's      *)
(* input, the backend calls it made, in order, and what reached the caller *)
(* (the backend's value or an exception).                                  *)
(***************************************************************************)
EXTENDS Integers, Sequences, FiniteSets, TLC

VARIABLES
    pc,            \* "idle": the engine waits for a call; "done": a call ended
    m_projection,  \* the factory's projection (fixed at construction)
    call,          \* the create_* call that ended last, with its arguments
    calls,         \* the backend (m_impl) calls of that call, in order
    emitted,       \* history: <<ring, position>> of every node handed to add
    result,        \* what reached the caller: a value or an exception
    history,       \* history: the (object_type, id) attachments on the exception
    n_set_id,      \* the set_id calls the caller made on the exception
    m_impl,        \* the factory's backend: whether and when it raises
    tally          \* history: the backend's starts and finishes over all calls

vars == <<pc, m_projection, call, calls, emitted, result, history, n_set_id,
          m_impl, tally>>

----------------------------------------------------------------------------
(* Bounds of the model *)

MaxNodes == 5      \* longest node list of a way
MaxRings == 3      \* most items of an area
MaxAreaNodes == 3  \* most nodes of an area, all its rings together
MaxSetId == 1      \* most set_id calls a caller makes on one exception
MaxFailAt == 3     \* latest backend call of a create_* call that raises
MaxCalls == 2      \* most create_* calls counted on one engine

----------------------------------------------------------------------------
(* Data model: Location, Coordinates, NodeRef lists, Way, Area *)

undefined_coordinate == 2147483647

\* osmium::Location(): both coordinates undefined
undefinedLocation == [x |-> undefined_coordinate, y |-> undefined_coordinate]

Locations == {undefinedLocation, [x |-> 0, y |-> 0], [x |-> 1, y |-> 0]}

\* operator==(Location, Location)
LocationEq(a, b) == a.x = b.x /\ a.y = b.y

ObjectIds == {0, 1, 2}

SeqsUpTo(S, n) == UNION {[1..k -> S] : k \in 0..n}

WayNodeLists == SeqsUpTo(Locations, MaxNodes)

UseNodes == {"unique", "all"}

Directions == {"forward", "backward"}

\* cbegin()..cend() and crbegin()..crend(): the positions visited, in order
ForwardRange(wnl) == [k \in 1..Len(wnl) |-> k]

BackwardRange_Forward(wnl) == ForwardRange(wnl)

BackwardRange(wnl) == [k \in 1..Len(wnl) |-> Len(wnl) + 1 - k]

----------------------------------------------------------------------------
(* geometry_error *)

NoException == [m_message |-> <<>>, m_id |-> 0]

IdSuffix(object_type, id) == <<" (", object_type, "_id=", ToString(id), ")">>

\* geometry_error::geometry_error(message, object_type, id)
geometry_error(message, object_type, id) ==
    [m_message |-> IF id # 0 THEN <<message>> \o IdSuffix(object_type, id)
                   ELSE <<message>>,
     m_id |-> id]

set_id_Again(e, object_type, id) ==
    [m_message |-> IF id # 0
                   THEN e.m_message \o IdSuffix(object_type, id)
                   ELSE e.m_message,
     m_id |-> id]

\* geometry_error::set_id(object_type, id)
set_id(e, object_type, id) ==
    [m_message |-> IF e.m_id = 0 /\ id # 0
                   THEN e.m_message \o IdSuffix(object_type, id)
                   ELSE e.m_message,
     m_id |-> id]

RECURSIVE Concat(_)
Concat(parts) ==
    IF parts = <<>> THEN "" ELSE Head(parts) \o Concat(Tail(parts))

\* geometry_error::what()
what(e) == Concat(e.m_message)

\* geometry_error::id()
id(e) == e.m_id

----------------------------------------------------------------------------
(* Projection and backend *)

\* TProjection::operator()(Location): the identity projection returns the
\* coordinates unchanged, another projection may map different Locations to
\* the same Coordinates; a strict projection raises on an undefined Location
Project(location) ==
    IF m_projection.throws # "none" /\ LocationEq(location, undefinedLocation)
    THEN [thrown |-> m_projection.throws, c |-> <<>>]
    ELSE IF m_projection.name = "identity"
    THEN [thrown |-> "none", c |-> <<[x |-> location.x, y |-> location.y]>>]
    ELSE [thrown |-> "none", c |-> <<[x |-> 0, y |-> 0]>>]

\* one call of a TGeomImpl member: its name, Coordinates argument (if any)
\* and num_points argument (if any)
ImplCall(op) == [op |-> op, c |-> <<>>, n |-> 0]

ImplAdd(op, c) == [op |-> op, c |-> c, n |-> 0]

ImplFinish(op, n) == [op |-> op, c |-> <<>>, n |-> n]

\* what a create_* call hands to its caller
Returned(value) == [kind |-> "value", value |-> value, e |-> NoException]

Thrown(kind, e) == [kind |-> kind, value |-> "", e |-> e]

NoResult == [kind |-> "none", value |-> "", e |-> NoException]

\* an exception that is not a geometry_error (raised by the projection)
OtherException == [m_message |-> <<"projection failed">>, m_id |-> 0]

\* an exception that is not a geometry_error (raised by the backend)
BackendException == [m_message |-> <<"backend failed">>, m_id |-> 0]

ThrownBy(kind) ==
    IF kind = "geometry_error"
    THEN Thrown(kind, geometry_error("projection failed", "", 0))
    ELSE IF kind = "backend_error"
    THEN Thrown(kind, BackendException)
    ELSE Thrown(kind, OtherException)

----------------------------------------------------------------------------
(* The point loops *)

FillStart_Defined == [calls |-> <<>>, num_points |-> 0, emitted |-> <<>>,
                      last_location |-> [x |-> 0, y |-> 0], thrown |-> "none"]


FillStart == [calls |-> <<>>, num_points |-> 0, emitted |-> <<>>,
              last_location |-> undefinedLocation, thrown |-> "none"]

\* for (; it != end; ++it, ++num_points) add(m_projection(it->location()))
RECURSIVE FillAll(_, _, _, _, _)
FillAll(add, wnl, range, k, st) ==
    IF k > Len(range) \/ st.thrown # "none" THEN st
    ELSE LET p == Project(wnl[range[k]])
         IN  IF p.thrown # "none" THEN [st EXCEPT !.thrown = p.thrown]
             ELSE FillAll(add, wnl, range, k + 1,
                          [st EXCEPT !.calls = Append(@, ImplAdd(add, p.c)),
                                     !.emitted = Append(@, <<0, range[k]>>),
                                     !.num_points = @ + 1])

\* for (; it != end; ++it) if (last_location != it->location()) { ... }
RECURSIVE FillUnique(_, _, _, _, _)
FillUnique(add, wnl, range, k, st) ==
    IF k > Len(range) \/ st.thrown # "none" THEN st
    ELSE LET location == wnl[range[k]]
         IN  IF ~LocationEq(st.last_location, location)
             THEN LET p == Project(location)
                  IN  IF p.thrown # "none" THEN [st EXCEPT !.thrown = p.thrown]
                      ELSE FillUnique(add, wnl, range, k + 1,
                               [st EXCEPT !.last_location = location,
                                          !.calls = Append(@, ImplAdd(add, p.c)),
                                          !.emitted = Append(@, <<0, range[k]>>),
                                          !.num_points = @ + 1])
             ELSE FillUnique(add, wnl, range, k + 1, st)

fill_linestring(wnl, range) ==
    FillAll("linestring_add_location", wnl, range, 1, FillStart)

fill_linestring_unique_CountVisited(wnl, range) ==
    [FillUnique("linestring_add_location", wnl, range, 1, FillStart)
        EXCEPT !.num_points = Len(range)]


RECURSIVE FillUniqueCoordinates(_, _, _, _, _)
FillUniqueCoordinates(add, wnl, range, k, st) ==
    IF k > Len(range) \/ st.thrown # "none" THEN st
    ELSE LET p == Project(wnl[range[k]])
             last == IF st.calls = <<>> THEN Project(undefinedLocation).c
                     ELSE st.calls[Len(st.calls)].c
         IN  IF p.thrown # "none" THEN [st EXCEPT !.thrown = p.thrown]
             ELSE IF p.c # last
             THEN FillUniqueCoordinates(add, wnl, range, k + 1,
                      [st EXCEPT !.calls = Append(@, ImplAdd(add, p.c)),
                                 !.emitted = Append(@, <<0, range[k]>>),
                                 !.num_points = @ + 1])
             ELSE FillUniqueCoordinates(add, wnl, range, k + 1, st)

fill_linestring_unique_ByCoordinates(wnl, range) ==
    FillUniqueCoordinates("linestring_add_location", wnl, range, 1, FillStart)


fill_linestring_unique(wnl, range) ==
    FillUnique("linestring_add_location", wnl, range, 1, FillStart)

fill_polygon(wnl, range) ==
    FillAll("polygon_add_location", wnl, range, 1, FillStart)

fill_polygon_unique(wnl, range) ==
    FillUnique("polygon_add_location", wnl, range, 1, FillStart)

\* the result of one call: the backend calls made, the nodes emitted and
\* what reaches the caller
Outcome(cs, em, res) == [calls |-> cs, emitted |-> em, result |-> res]

\* the backend calls that take a point
PointOps == {"make_point", "linestring_add_location", "polygon_add_location",
             "multipolygon_add_location"}

\* a backend that raises does so in its call number m_impl.at of the create_*
\* call: that call is the last one made, the exception leaves the function
\* and nothing after the call happens
ImplRaises(out) ==
    IF m_impl.throws # "none" /\ m_impl.at <= Len(out.calls)
    THEN LET cs == SubSeq(out.calls, 1, m_impl.at)
             n == Cardinality({k \in 1..Len(cs) : cs[k].op \in PointOps})
         IN  Outcome(cs, SubSeq(out.emitted, 1, n), ThrownBy(m_impl.throws))
    ELSE out

----------------------------------------------------------------------------
(* LineString *)

\* if (num_points < 2)
TooFewForLinestring_OffByOne(num_points) == num_points < 1

TooFewForLinestring(num_points) == num_points < 2

\* create_linestring(const WayNodeList&, use_nodes, direction)
create_linestring_FinishFirst(wnl, un, dir) ==
    ImplRaises(
    LET range == IF dir = "forward" THEN ForwardRange(wnl) ELSE BackwardRange(wnl)
        f == IF un = "unique" THEN fill_linestring_unique(wnl, range)
             ELSE fill_linestring(wnl, range)
        cs == <<ImplCall("linestring_start")>> \o f.calls
        done == Append(cs, ImplFinish("linestring_finish", f.num_points))
    IN  IF f.thrown # "none" THEN Outcome(cs, f.emitted, ThrownBy(f.thrown))
        ELSE IF TooFewForLinestring(f.num_points)
        THEN Outcome(done, f.emitted,
                 Thrown("geometry_error",
                        geometry_error("need at least two points for linestring", "", 0)))
        ELSE Outcome(done, f.emitted, Returned("linestring")))


create_linestring(wnl, un, dir) ==
    ImplRaises(
    LET range == IF dir = "forward" THEN ForwardRange(wnl) ELSE BackwardRange(wnl)
        f == IF un = "unique" THEN fill_linestring_unique(wnl, range)
             ELSE fill_linestring(wnl, range)
        cs == <<ImplCall("linestring_start")>> \o f.calls
    IN  IF f.thrown # "none" THEN Outcome(cs, f.emitted, ThrownBy(f.thrown))
        ELSE IF TooFewForLinestring(f.num_points)
        THEN Outcome(cs, f.emitted,
                 Thrown("geometry_error",
                        geometry_error("need at least two points for linestring", "", 0)))
        ELSE Outcome(Append(cs, ImplFinish("linestring_finish", f.num_points)),
                     f.emitted, Returned("linestring")))

\* create_linestring(const Way&, use_nodes, direction)
create_linestring_way_NoId(way, un, dir) == create_linestring(way.nodes, un, dir)


create_linestring_way(way, un, dir) ==
    LET out == create_linestring(way.nodes, un, dir)
    IN  IF out.result.kind = "geometry_error"
        THEN [out EXCEPT !.result.e = set_id(@, "way", way.id)]
        ELSE out

----------------------------------------------------------------------------
(* Polygon *)

\* if (num_points < 4)
TooFewForPolygon_OffByOne(num_points) == num_points < 3

TooFewForPolygon(num_points) == num_points < 4

\* create_polygon(const WayNodeList&, use_nodes, direction)
create_polygon(wnl, un, dir) ==
    ImplRaises(
    LET range == IF dir = "forward" THEN ForwardRange(wnl) ELSE BackwardRange(wnl)
        f == IF un = "unique" THEN fill_polygon_unique(wnl, range)
             ELSE fill_polygon(wnl, range)
        cs == <<ImplCall("polygon_start")>> \o f.calls
    IN  IF f.thrown # "none" THEN Outcome(cs, f.emitted, ThrownBy(f.thrown))
        ELSE IF TooFewForPolygon(f.num_points)
        THEN Outcome(cs, f.emitted,
                 Thrown("geometry_error",
                        geometry_error("need at least four points for polygon", "", 0)))
        ELSE Outcome(Append(cs, ImplFinish("polygon_finish", f.num_points)),
                     f.emitted, Returned("polygon")))

\* create_polygon(const Way&, use_nodes, direction)
create_polygon_way(way, un, dir) ==
    LET out == create_polygon(way.nodes, un, dir)
    IN  IF out.result.kind = "geometry_error"
        THEN [out EXCEPT !.result.e = set_id(@, "way", way.id)]
        ELSE out

----------------------------------------------------------------------------
(* Point *)

\* create_point(const Location&)
create_point(location) ==
    LET p == Project(location)
    IN  IF p.thrown # "none" THEN Outcome(<<>>, <<>>, ThrownBy(p.thrown))
        ELSE ImplRaises(Outcome(<<ImplAdd("make_point", p.c)>>, <<<<0, 1>>>>,
                                Returned("point")))

\* create_point(const Node&)
create_point_node_CatchAll(node) ==
    LET out == create_point(node.location)
    IN  IF out.result.kind # "value"
        THEN [out EXCEPT !.result.e = set_id(@, "node", node.id)]
        ELSE out


create_point_node(node) ==
    LET out == create_point(node.location)
    IN  IF out.result.kind = "geometry_error"
        THEN [out EXCEPT !.result.e = set_id(@, "node", node.id)]
        ELSE out

\* create_point(const NodeRef&)
create_point_node_ref(node_ref) ==
    LET out == create_point(node_ref.location)
    IN  IF out.result.kind = "geometry_error"
        THEN [out EXCEPT !.result.e = set_id(@, "node", node_ref.ref)]
        ELSE out

----------------------------------------------------------------------------
(* MultiPolygon *)

ItemTypes == {"outer_ring", "inner_ring", "tag_list"}

\* the nodes of the items before item j, given the items' lengths
RECURSIVE NodesBefore(_, _)
NodesBefore(lens, j) ==
    IF j <= 1 THEN 0 ELSE NodesBefore(lens, j - 1) + lens[j - 1]

\* the items of an area: item j has type types[j] and the next lens[j] nodes
\* of the area's buffer
MakeItems(types, lens, buffer) ==
    [j \in 1..Len(types) |->
        [type |-> types[j],
         nodes |-> SubSeq(buffer, NodesBefore(lens, j) + 1,
                          NodesBefore(lens, j) + lens[j])]]

\* add_points(const NodeRefList&), for the ring at position r of the area
add_points_NoDedup(r, nodes) ==
    LET f == FillAll("multipolygon_add_location", nodes, ForwardRange(nodes),
                     1, FillStart)
    IN  [f EXCEPT !.emitted = [k \in 1..Len(f.emitted) |-> <<r, f.emitted[k][2]>>]]


add_points(r, nodes) ==
    LET f == FillUnique("multipolygon_add_location", nodes, ForwardRange(nodes),
                        1, FillStart)
    IN  [f EXCEPT !.emitted = [k \in 1..Len(f.emitted) |-> <<r, f.emitted[k][2]>>]]

LoopStart == [calls |-> <<ImplCall("multipolygon_start")>>, emitted |-> <<>>,
              num_polygons |-> 0, num_rings |-> 0, thrown |-> "none"]

\* if (num_polygons > 0) m_impl.multipolygon_polygon_finish();
FinishPrevious_Never(st) == <<>>

FinishPrevious_AnyRing(st) ==
    IF st.num_rings > 0
    THEN <<ImplCall("multipolygon_polygon_finish")>> ELSE <<>>


FinishPrevious(st) ==
    IF st.num_polygons > 0
    THEN <<ImplCall("multipolygon_polygon_finish")>> ELSE <<>>

\* if (num_rings == 0): there are no rings, the area is invalid
InvalidArea_NoPolygon(st) == st.num_polygons = 0

InvalidArea_Never(st) == FALSE

InvalidArea_NoPoints(st) == st.emitted = <<>>


InvalidArea(st) == st.num_rings = 0

\* the body of the loop over the area's items, for the item at position r
RingStep(item, r, st) ==
    IF item.type = "outer_ring"
    THEN LET f == add_points(r, item.nodes)
             open == FinishPrevious(st)
                     \o <<ImplCall("multipolygon_polygon_start"),
                          ImplCall("multipolygon_outer_ring_start")>> \o f.calls
         IN  IF f.thrown # "none"
             THEN [st EXCEPT !.calls = @ \o open, !.emitted = @ \o f.emitted,
                             !.thrown = f.thrown]
             ELSE [st EXCEPT !.calls = @ \o open
                                 \o <<ImplCall("multipolygon_outer_ring_finish")>>,
                             !.emitted = @ \o f.emitted,
                             !.num_rings = @ + 1,
                             !.num_polygons = @ + 1]
    ELSE IF item.type = "inner_ring"
    THEN LET f == add_points(r, item.nodes)
             open == <<ImplCall("multipolygon_inner_ring_start")>> \o f.calls
         IN  IF f.thrown # "none"
             THEN [st EXCEPT !.calls = @ \o open, !.emitted = @ \o f.emitted,
                             !.thrown = f.thrown]
             ELSE [st EXCEPT !.calls = @ \o open
                                 \o <<ImplCall("multipolygon_inner_ring_finish")>>,
                             !.emitted = @ \o f.emitted,
                             !.num_rings = @ + 1]
    ELSE st

\* for (auto it = area.cbegin(); it != area.cend(); ++it)
RECURSIVE RingLoop(_, _, _)
RingLoop(items, r, st) ==
    IF r > Len(items) \/ st.thrown # "none" THEN st
    ELSE RingLoop(items, r + 1, RingStep(items[r], r, st))

\* create_multipolygon(const Area&)
create_multipolygon(area) ==
    LET st == RingLoop(area.items, 1, LoopStart)
        out == ImplRaises(
               IF st.thrown # "none"
               THEN Outcome(st.calls, st.emitted, ThrownBy(st.thrown))
               ELSE IF InvalidArea(st)
               THEN Outcome(st.calls, st.emitted,
                        Thrown("geometry_error", geometry_error("invalid area", "", 0)))
               ELSE Outcome(st.calls \o <<ImplCall("multipolygon_polygon_finish"),
                                         ImplCall("multipolygon_finish")>>,
                            st.emitted, Returned("multipolygon")))
    IN  IF out.result.kind = "geometry_error"
        THEN [out EXCEPT !.result.e = set_id(@, "area", area.id)]
        ELSE out

----------------------------------------------------------------------------
(* The caller *)

ObjectTypes == {"node", "way", "area"}

NoCall == [op |-> "none", id |-> 0, nodes |-> <<>>, un |-> "", dir |-> "",
           items |-> <<>>]

\* the exception's attachments made inside the call: the constructor's and
\* the enclosing overload's set_id
Attachments(c, out) ==
    IF out.result.kind # "geometry_error" THEN <<>>
    ELSE IF c.op \in {"create_point_node", "create_point_node_ref"}
    THEN <<<<"", 0>>, <<"node", c.id>>>>
    ELSE IF c.op \in {"create_linestring_way", "create_polygon_way"}
    THEN <<<<"", 0>>, <<"way", c.id>>>>
    ELSE IF c.op = "create_multipolygon"
    THEN <<<<"", 0>>, <<"area", c.id>>>>
    ELSE <<<<"", 0>>>>

NoTally == [on |-> FALSE, n_calls |-> 0,
            linestring_start |-> 0, linestring_finish |-> 0, linestring_failed |-> 0,
            polygon_start |-> 0, polygon_finish |-> 0, polygon_failed |-> 0]

\* how many of the backend calls cs are calls of op
Made(cs, op) == Cardinality({k \in 1..Len(cs) : cs[k].op = op})

Failed(c, out, ops) == IF c.op \in ops /\ out.result.kind # "value" THEN 1 ELSE 0

\* the tally after the call c with the outcome out
Tallied(c, out) ==
    IF ~tally.on THEN tally
    ELSE [on |-> TRUE,
          n_calls |-> tally.n_calls + 1,
          linestring_start |->
              tally.linestring_start + Made(out.calls, "linestring_start"),
          linestring_finish |->
              tally.linestring_finish + Made(out.calls, "linestring_finish"),
          linestring_failed |->
              tally.linestring_failed
              + Failed(c, out, {"create_linestring", "create_linestring_way"}),
          polygon_start |->
              tally.polygon_start + Made(out.calls, "polygon_start"),
          polygon_finish |->
              tally.polygon_finish + Made(out.calls, "polygon_finish"),
          polygon_failed |->
              tally.polygon_failed
              + Failed(c, out, {"create_polygon", "create_polygon_way"})]

Finish(c, out) ==
    /\ tally.n_calls < MaxCalls
    /\ tally' = Tallied(c, out)
    /\ pc' = "done"
    /\ call' = c
    /\ calls' = out.calls
    /\ emitted' = out.emitted
    /\ result' = out.result
    /\ history' = Attachments(c, out)
    /\ n_set_id' = 0
    /\ UNCHANGED <<m_projection, m_impl>>

DoCreatePoint ==
    /\ pc = "idle"
    /\ \E location \in Locations :
          Finish([NoCall EXCEPT !.op = "create_point", !.nodes = <<location>>],
                 create_point(location))

DoCreatePointNode ==
    /\ pc = "idle"
    /\ \E location \in Locations, i \in ObjectIds :
          Finish([NoCall EXCEPT !.op = "create_point_node", !.id = i,
                                !.nodes = <<location>>],
                 create_point_node([id |-> i, location |-> location]))

DoCreatePointNodeRef ==
    /\ pc = "idle"
    /\ \E location \in Locations, i \in ObjectIds :
          Finish([NoCall EXCEPT !.op = "create_point_node_ref", !.id = i,
                                !.nodes = <<location>>],
                 create_point_node_ref([ref |-> i, location |-> location]))

DoCreateLinestring ==
    /\ pc = "idle"
    /\ \E wnl \in WayNodeLists, un \in UseNodes, dir \in Directions :
          Finish([NoCall EXCEPT !.op = "create_linestring", !.nodes = wnl,
                                !.un = un, !.dir = dir],
                 create_linestring(wnl, un, dir))

DoCreateLinestringWay ==
    /\ pc = "idle"
    /\ \E wnl \in WayNodeLists, i \in ObjectIds, un \in UseNodes, dir \in Directions :
          Finish([NoCall EXCEPT !.op = "create_linestring_way", !.id = i,
                                !.nodes = wnl, !.un = un, !.dir = dir],
                 create_linestring_way([id |-> i, nodes |-> wnl], un, dir))

DoCreatePolygon ==
    /\ pc = "idle"
    /\ \E wnl \in WayNodeLists, un \in UseNodes, dir \in Directions :
          Finish([NoCall EXCEPT !.op = "create_polygon", !.nodes = wnl,
                                !.un = un, !.dir = dir],
                 create_polygon(wnl, un, dir))

DoCreatePolygonWay ==
    /\ pc = "idle"
    /\ \E wnl \in WayNodeLists, i \in ObjectIds, un \in UseNodes, dir \in Directions :
          Finish([NoCall EXCEPT !.op = "create_polygon_way", !.id = i,
                                !.nodes = wnl, !.un = un, !.dir = dir],
                 create_polygon_way([id |-> i, nodes |-> wnl], un, dir))

\* create_multipolygon on an area whose id is one of ids
CreateMultipolygon(ids) ==
    /\ pc = "idle"
    /\ \E k \in 0..MaxRings :
       \E types \in [1..k -> ItemTypes], lens \in [1..k -> 0..MaxAreaNodes] :
          /\ \A j \in 1..k : types[j] = "tag_list" => lens[j] = 0
          /\ NodesBefore(lens, k + 1) <= MaxAreaNodes
          /\ \E buffer \in [1..NodesBefore(lens, k + 1) -> Locations],
                i \in ids :
                LET items == MakeItems(types, lens, buffer)
                IN  Finish([NoCall EXCEPT !.op = "create_multipolygon", !.id = i,
                                          !.items = items],
                           create_multipolygon([id |-> i, items |-> items]))

DoCreateMultipolygon == CreateMultipolygon(ObjectIds)

\* create_multipolygon on an area without id
DoCreateMultipolygonAnonymous == CreateMultipolygon({0})

\* create_multipolygon on the area with id 1
DoCreateMultipolygonNamed == CreateMultipolygon({1})

\* a caller throws a geometry_error of its own
DoThrow ==
    /\ pc = "idle"
    /\ \E object_type \in ObjectTypes, i \in ObjectIds :
          /\ pc' = "done"
          /\ call' = [NoCall EXCEPT !.op = "geometry_error", !.id = i]
          /\ calls' = <<>>
          /\ emitted' = <<>>
          /\ result' = Thrown("geometry_error",
                              geometry_error("invalid geometry", object_type, i))
          /\ history' = <<<<object_type, i>>>>
          /\ n_set_id' = 0
          /\ UNCHANGED <<m_projection, m_impl, tally>>

\* a handler that caught the geometry_error calls set_id on it
DoSetId ==
    /\ pc = "done"
    /\ result.kind = "geometry_error"
    /\ n_set_id < MaxSetId
    /\ \E object_type \in ObjectTypes, i \in ObjectIds :
          /\ result' = [result EXCEPT !.e = set_id(@, object_type, i)]
          /\ history' = Append(history, <<object_type, i>>)
          /\ n_set_id' = n_set_id + 1
    /\ UNCHANGED <<pc, m_projection, call, calls, emitted, m_impl, tally>>

\* the caller has taken the value or caught the exception
Return ==
    /\ pc = "done"
    /\ pc' = "idle"
    /\ call' = NoCall
    /\ calls' = <<>>
    /\ emitted' = <<>>
    /\ result' = NoResult
    /\ history' = <<>>
    /\ n_set_id' = 0
    /\ UNCHANGED <<m_projection, m_impl, tally>>

\* a backend that does not raise
NoImplFailure == [throws |-> "none", at |-> 0]

\* the factory with a projection that does not fail
Init ==
    /\ pc = "idle"
    /\ m_projection = [name |-> "identity", throws |-> "none"]
    /\ call = NoCall
    /\ calls = <<>>
    /\ emitted = <<>>
    /\ result = NoResult
    /\ history = <<>>
    /\ n_set_id = 0
    /\ m_impl = NoImplFailure
    /\ tally = NoTally

ProjectionFailures == {"none", "projection_error", "geometry_error"}

\* the factory with any projection, also one that raises
InitAnyProjection ==
    /\ pc = "idle"
    /\ m_projection \in [name : {"identity"}, throws : ProjectionFailures]
    /\ call = NoCall
    /\ calls = <<>>
    /\ emitted = <<>>
    /\ result = NoResult
    /\ history = <<>>
    /\ n_set_id = 0
    /\ m_impl = NoImplFailure
    /\ tally = NoTally

Next ==
    \/ DoCreatePoint
    \/ DoCreatePointNode
    \/ DoCreatePointNodeRef
    \/ DoCreateLinestring
    \/ DoCreateLinestringWay
    \/ DoCreatePolygon
    \/ DoCreatePolygonWay
    \/ DoCreateMultipolygon
    \/ DoThrow
    \/ DoSetId
    \/ Return

Spec == Init /\ [][Next]_vars

\* the engine used for points only
NextPoint ==
    \/ DoCreatePoint
    \/ DoCreatePointNode
    \/ DoCreatePointNodeRef
    \/ DoThrow
    \/ DoSetId
    \/ Return

SpecPointAnyProjection == InitAnyProjection /\ [][NextPoint]_vars

\* the factory with a projection that does not fail, the identity or one
\* that maps every Location to the same Coordinates
InitShapes ==
    /\ pc = "idle"
    /\ m_projection \in [name : {"identity", "collapse"}, throws : {"none"}]
    /\ call = NoCall
    /\ calls = <<>>
    /\ emitted = <<>>
    /\ result = NoResult
    /\ history = <<>>
    /\ n_set_id = 0
    /\ m_impl = NoImplFailure
    /\ tally = NoTally

\* the engine used on node lists and areas
NextShapes ==
    \/ DoCreateLinestring
    \/ DoCreatePolygon
    \/ DoCreateMultipolygonAnonymous
    \/ Return

SpecShapes == InitShapes /\ [][NextShapes]_vars

\* the factory whose backend calls are counted over all its calls
InitCounting ==
    /\ pc = "idle"
    /\ m_projection = [name |-> "identity", throws |-> "none"]
    /\ call = NoCall
    /\ calls = <<>>
    /\ emitted = <<>>
    /\ result = NoResult
    /\ history = <<>>
    /\ n_set_id = 0
    /\ m_impl = NoImplFailure
    /\ tally = [NoTally EXCEPT !.on = TRUE]

\* the engine used on node lists and ways
NextWays ==
    \/ DoCreateLinestring
    \/ DoCreateLinestringWay
    \/ DoCreatePolygon
    \/ DoCreatePolygonWay
    \/ Return

SpecWays == InitCounting /\ [][NextWays]_vars

\* the projection and the backend of a factory: neither raises, or the
\* projection raises an error of its own kind, or the backend does
Capabilities ==
    {<<[name |-> "identity", throws |-> "none"], NoImplFailure>>,
     <<[name |-> "identity", throws |-> "projection_error"], NoImplFailure>>}
    \cup {<<[name |-> "identity", throws |-> "none"],
            [throws |-> "backend_error", at |-> k]>> : k \in 1..MaxFailAt}

\* the factory with a projection or a backend that may raise
InitFailures ==
    /\ pc = "idle"
    /\ \E cap \in Capabilities : m_projection = cap[1] /\ m_impl = cap[2]
    /\ call = NoCall
    /\ calls = <<>>
    /\ emitted = <<>>
    /\ result = NoResult
    /\ history = <<>>
    /\ n_set_id = 0
    /\ tally = NoTally

\* the engine used on the entities that carry an id
NextEntities ==
    \/ DoCreatePointNode
    \/ DoCreatePointNodeRef
    \/ DoCreateLinestringWay
    \/ DoCreatePolygonWay
    \/ DoCreateMultipolygonNamed
    \/ Return

SpecFailures == InitFailures /\ [][NextEntities]_vars

SpecAnyProjection == InitAnyProjection /\ [][Next]_vars

----------------------------------------------------------------------------
(* Reading a finished call *)

Ended(ops) == pc = "done" /\ call.op \in ops /\ n_set_id = 0

\* how many of the backend calls are calls of op
CountOp(op) == Cardinality({k \in 1..Len(calls) : calls[k].op = op})

\* the points handed to the backend by an add call
AddOps == {"linestring_add_location", "polygon_add_location",
           "multipolygon_add_location"}

NumAdded == Cardinality({k \in 1..Len(calls) : calls[k].op \in AddOps})

IsRing(item) == item.type \in {"outer_ring", "inner_ring"}

\* the area's ring sequence: its items that are rings
Rings(items) == SelectSeq(items, IsRing)

NumOuter(items) ==
    Cardinality({j \in 1..Len(items) : items[j].type = "outer_ring"})

\* the backend's multipolygon protocol as an automaton over the call names
ProtocolStep(q, op) ==
    CASE q = "new" /\ op = "multipolygon_start" -> "multipolygon"
      [] q = "multipolygon" /\ op = "multipolygon_polygon_start" -> "polygon"
      [] q = "polygon" /\ op = "multipolygon_outer_ring_start" -> "outer"
      [] q = "outer" /\ op = "multipolygon_add_location" -> "outer"
      [] q = "outer" /\ op = "multipolygon_outer_ring_finish" -> "rings"
      [] q = "rings" /\ op = "multipolygon_inner_ring_start" -> "inner"
      [] q = "inner" /\ op = "multipolygon_add_location" -> "inner"
      [] q = "inner" /\ op = "multipolygon_inner_ring_finish" -> "rings"
      [] q = "rings" /\ op = "multipolygon_polygon_finish" -> "multipolygon"
      [] q = "multipolygon" /\ op = "multipolygon_finish" -> "finished"
      [] OTHER -> "broken"

RECURSIVE ProtocolRun(_, _, _)
ProtocolRun(cs, k, q) ==
    IF k > Len(cs) THEN q ELSE ProtocolRun(cs, k + 1, ProtocolStep(q, cs[k].op))

\* the grouping precondition on an area: its ring sequence is not empty and
\* begins with an outer ring
Grouped(items) ==
    /\ Rings(items) # <<>>
    /\ Rings(items)[1].type = "outer_ring"

----------------------------------------------------------------------------
(* Claims *)

\* C1: for an area whose ring sequence is not empty and begins with an outer
\* ring, the backend calls of create_multipolygon are exactly one run of the
\* nested protocol (multipolygon_start first, multipolygon_finish last, no
\* polygon started while another is open) and the numbers of
\* multipolygon_polygon_start and of multipolygon_polygon_finish calls both
\* equal the number of outer rings.
C1_NestedProtocol ==
    (Ended({"create_multipolygon"}) /\ Grouped(call.items)) =>
        /\ result.kind = "value"
        /\ ProtocolRun(calls, 1, "new") = "finished"
        /\ CountOp("multipolygon_polygon_start") = NumOuter(call.items)
        /\ CountOp("multipolygon_polygon_finish") = NumOuter(call.items)

\* an area of two polygons, the first with an inner ring
C1_Witness ==
    /\ Ended({"create_multipolygon"})
    /\ Len(call.items) = 3
    /\ call.items[1].type = "outer_ring"
    /\ call.items[2].type = "inner_ring"
    /\ call.items[3].type = "outer_ring"
    /\ CountOp("multipolygon_polygon_finish") = 2
    /\ CountOp("multipolygon_add_location") >= 2

\* C2: create_linestring fails with the geometry_error "need at least two
\* points for linestring", and never calls linestring_finish, when it emitted
\* fewer than 2 points; when it emitted 2 or more it does not fail and calls
\* linestring_finish exactly once, as its last backend call.
C2_LinestringMinimum ==
    Ended({"create_linestring", "create_linestring_way"}) =>
        IF NumAdded < 2
        THEN /\ result.kind = "geometry_error"
             /\ Head(result.e.m_message) = "need at least two points for linestring"
             /\ call.op = "create_linestring" =>
                    what(result.e) = "need at least two points for linestring"
             /\ CountOp("linestring_finish") = 0
        ELSE /\ result.kind = "value"
             /\ CountOp("linestring_finish") = 1
             /\ calls[Len(calls)].op = "linestring_finish"

\* a unique linestring that failed after one point, its duplicates merged
C2_Witness ==
    /\ Ended({"create_linestring"})
    /\ call.un = "unique"
    /\ Len(call.nodes) >= 2
    /\ NumAdded = 1
    /\ result.kind = "geometry_error"

\* C3: create_polygon fails with the geometry_error "need at least four
\* points for polygon", and never calls polygon_finish, when it emitted fewer
\* than 4 points; when it emitted 4 or more it does not fail and calls
\* polygon_finish exactly once, whether or not the first point equals the last.
C3_PolygonMinimum ==
    Ended({"create_polygon", "create_polygon_way"}) =>
        IF NumAdded < 4
        THEN /\ result.kind = "geometry_error"
             /\ Head(result.e.m_message) = "need at least four points for polygon"
             /\ call.op = "create_polygon" =>
                    what(result.e) = "need at least four points for polygon"
             /\ CountOp("polygon_finish") = 0
        ELSE /\ result.kind = "value"
             /\ CountOp("polygon_finish") = 1
             /\ calls[Len(calls)].op = "polygon_finish"

\* a polygon of four points that is not closed, and is built all the same
C3_Witness ==
    /\ Ended({"create_polygon"})
    /\ NumAdded = 4
    /\ calls[2].c # calls[5].c
    /\ result.kind = "value"

\* C4: for an area without rings create_multipolygon fails with the
\* geometry_error "invalid area" after multipolygon_start and nothing else,
\* and the only entity the error names is the area, by its own id.
C4_InvalidArea ==
    (Ended({"create_multipolygon"}) /\ Rings(call.items) = <<>>) =>
        /\ result.kind = "geometry_error"
        /\ Head(result.e.m_message) = "invalid area"
        /\ calls = <<ImplCall("multipolygon_start")>>
        /\ id(result.e) = call.id
        /\ what(result.e) = IF call.id = 0 THEN "invalid area"
                            ELSE "invalid area (area_id=" \o ToString(call.id) \o ")"

\* an area with an id and no ring
C4_Witness ==
    /\ Ended({"create_multipolygon"})
    /\ Rings(call.items) = <<>>
    /\ call.id # 0
    /\ result.kind = "geometry_error"

\* the positions i..j of the node list hold one Location, and the run cannot
\* be made longer
IsRun(nodes, i, j) ==
    /\ i < j
    /\ \A k \in i..j : LocationEq(nodes[k], nodes[i])
    /\ i > 1 => ~LocationEq(nodes[i - 1], nodes[i])
    /\ j < Len(nodes) => ~LocationEq(nodes[j + 1], nodes[i])

\* how many nodes at the positions i..j were emitted
EmittedIn(i, j) ==
    Cardinality({k \in 1..Len(emitted) : emitted[k][2] \in i..j})

\* C5: for a node list with a run of k > 1 consecutive equal Locations (any
\* Location, the undefined one too), create_linestring and create_polygon
\* emit exactly 1 point for the run in unique mode and k points in all mode.
C5_RunCollapses ==
    Ended({"create_linestring", "create_polygon"}) =>
        \A i, j \in 1..Len(call.nodes) :
            IsRun(call.nodes, i, j) =>
                EmittedIn(i, j) = IF call.un = "unique" THEN 1 ELSE j - i + 1

NoEqualNeighbours(nodes) ==
    \A k \in 1..(Len(nodes) - 1) : ~LocationEq(nodes[k], nodes[k + 1])

\* C6: for a node list of at least 2 nodes in which no two consecutive nodes
\* share a Location, create_linestring in unique mode emits as many points,
\* and passes the same count to linestring_finish, as in all mode.
C6_UniqueEqualsAll ==
    (/\ Ended({"create_linestring"})
     /\ call.un = "unique"
     /\ Len(call.nodes) >= 2
     /\ NoEqualNeighbours(call.nodes)) =>
        LET all == create_linestring(call.nodes, "all", call.dir)
        IN  /\ Len(emitted) = Len(all.emitted)
            /\ calls[Len(calls)] = all.calls[Len(all.calls)]

Reverse(nodes) == [k \in 1..Len(nodes) |-> nodes[Len(nodes) + 1 - k]]

\* C7: create_linestring and create_polygon on a node list in backward
\* direction make the same backend calls, with the same points in the same
\* order, and end the same way (same count or same error) as on the reversed
\* node list in forward direction: the nodes are reversed, then deduplicated.
C7_BackwardIsReversed ==
    (Ended({"create_linestring", "create_polygon"}) /\ call.dir = "backward") =>
        LET fwd == IF call.op = "create_linestring"
                   THEN create_linestring(Reverse(call.nodes), call.un, "forward")
                   ELSE create_polygon(Reverse(call.nodes), call.un, "forward")
        IN  /\ calls = fwd.calls
            /\ result = fwd.result
            /\ Len(emitted) = Len(fwd.emitted)
            /\ \A k \in 1..Len(emitted) :
                  emitted[k][2] = Len(call.nodes) + 1 - fwd.emitted[k][2]

\* a backward unique call on a list that is not its own reverse and whose
\* duplicates were merged
C7_Witness ==
    /\ Ended({"create_linestring", "create_polygon"})
    /\ call.dir = "backward"
    /\ call.un = "unique"
    /\ Reverse(call.nodes) # call.nodes
    /\ Len(emitted) >= 2
    /\ Len(emitted) < Len(call.nodes)
    /\ result.kind = "value"

\* the attachments of the exception that supplied an id other than 0
Supplied == {k \in 1..Len(history) : history[k][2] # 0}

FirstSupplied == CHOOSE k \in Supplied : \A l \in Supplied : k <= l

\* C8: whatever set_id calls were made on a geometry_error, its id() and the
\* id suffix of what() are those of the first attachment that supplied an id
\* other than 0, so the message has at most one suffix.
C8_EnrichmentOnce ==
    (pc = "done" /\ result.kind = "geometry_error") =>
        IF Supplied = {}
        THEN /\ id(result.e) = 0
             /\ Len(result.e.m_message) = 1
        ELSE /\ id(result.e) = history[FirstSupplied][2]
             /\ result.e.m_message =
                    <<Head(result.e.m_message)>>
                    \o IdSuffix(history[FirstSupplied][1], history[FirstSupplied][2])

\* C9: for an area whose rings are all inner rings create_multipolygon does
\* not fail: it never calls multipolygon_polygon_start nor
\* multipolygon_outer_ring_start, calls multipolygon_inner_ring_start and
\* _finish once per ring, then multipolygon_polygon_finish once and
\* multipolygon_finish, and returns the backend's multipolygon.
C9_InnerRingsOnly ==
    (/\ Ended({"create_multipolygon"})
     /\ Rings(call.items) # <<>>
     /\ NumOuter(call.items) = 0) =>
        /\ result.kind = "value"
        /\ result.value = "multipolygon"
        /\ CountOp("multipolygon_polygon_start") = 0
        /\ CountOp("multipolygon_outer_ring_start") = 0
        /\ CountOp("multipolygon_inner_ring_start") = Len(Rings(call.items))
        /\ CountOp("multipolygon_inner_ring_finish") = Len(Rings(call.items))
        /\ CountOp("multipolygon_polygon_finish") = 1
        /\ Len(calls) >= 2
        /\ calls[Len(calls) - 1].op = "multipolygon_polygon_finish"
        /\ calls[Len(calls)].op = "multipolygon_finish"

\* an area of two inner rings, with points
C9_Witness ==
    /\ Ended({"create_multipolygon"})
    /\ Len(Rings(call.items)) = 2
    /\ NumOuter(call.items) = 0
    /\ CountOp("multipolygon_add_location") >= 2
    /\ result.kind = "value"

\* C10 as stated: when create_point(node) fails because the projection
\* raises a projection error, the error that reaches the caller carries the
\* node's id, attached exactly once (read for a node whose id is not 0).
C10_ProjectionErrorCarriesId ==
    (pc = "done" /\ call.op = "create_point_node" /\ call.id # 0
        /\ result.kind = "projection_error") =>
        /\ id(result.e) = call.id
        /\ result.e.m_message =
               <<Head(result.e.m_message)>> \o IdSuffix("node", call.id)

\* every set_id call made on the exception after its construction named the
\* node of the call
OnlyNodeAttached ==
    \A k \in 2..Len(history) : history[k] = <<"node", call.id>>

\* C10, amended: when create_point(node) fails with a geometry_error raised
\* by the projection, the error that reaches the caller has the node's id as
\* its id() and, when that id is not 0, the suffix " (node_id=<id>)" exactly
\* once in what(), also after set_id("node", id) is called on it again; a
\* projection error that is not a geometry_error reaches the caller as it
\* was raised, with no id.
C10_GeometryErrorCarriesId ==
    (pc = "done" /\ call.op = "create_point_node") =>
        /\ result.kind = "projection_error" => result.e = OtherException
        /\ (result.kind = "geometry_error" /\ OnlyNodeAttached) =>
              /\ id(result.e) = call.id
              /\ what(result.e) =
                    IF call.id = 0 THEN "projection failed"
                    ELSE "projection failed (node_id=" \o ToString(call.id) \o ")"

\* the geometry_error of a node with an id, set_id called on it a second time
C10_Witness ==
    /\ pc = "done"
    /\ call.op = "create_point_node"
    /\ result.kind = "geometry_error"
    /\ call.id # 0
    /\ n_set_id = 1
    /\ OnlyNodeAttached

\* the position in the backend calls of the n-th multipolygon_polygon_start
StartOf(n) ==
    CHOOSE k \in 1..Len(calls) :
        /\ calls[k].op = "multipolygon_polygon_start"
        /\ Cardinality({l \in 1..k :
               calls[l].op = "multipolygon_polygon_start"}) = n

\* how many of the rings up to position p of the ring sequence are outer
OuterUpTo(rings, p) ==
    Cardinality({q \in 1..p : rings[q].type = "outer_ring"})

FinishBefore(k) ==
    \E l \in 1..(k - 1) : calls[l].op = "multipolygon_polygon_finish"

\* C11 as stated: in create_multipolygon, for every outer ring that is not
\* the first ring of the area's ring sequence, whatever the kinds of the
\* rings before it, multipolygon_polygon_finish is called before that ring's
\* multipolygon_polygon_start; for an outer ring that is the first ring, no
\* multipolygon_polygon_finish precedes its multipolygon_polygon_start.
C11_FinishBeforeLaterRing ==
    (Ended({"create_multipolygon"}) /\ result.kind = "value") =>
        LET rings == Rings(call.items)
        IN  \A p \in 1..Len(rings) :
                rings[p].type = "outer_ring" =>
                    (FinishBefore(StartOf(OuterUpTo(rings, p))) <=> p > 1)

\* C11, amended: in create_multipolygon, for every outer ring that has an
\* outer ring before it in the area's ring sequence,
\* multipolygon_polygon_finish is the call made just before that ring's
\* multipolygon_polygon_start; for the first outer ring of the sequence, also
\* when inner rings come before it, no multipolygon_polygon_finish precedes
\* its multipolygon_polygon_start.
C11_FinishBeforeLaterOuter ==
    (Ended({"create_multipolygon"}) /\ result.kind = "value") =>
        LET rings == Rings(call.items)
        IN  /\ CountOp("multipolygon_polygon_start") = NumOuter(call.items)
            /\ \A p \in 1..Len(rings) :
                  rings[p].type = "outer_ring" =>
                      LET k == StartOf(OuterUpTo(rings, p))
                      IN  IF OuterUpTo(rings, p) > 1
                          THEN calls[k - 1].op = "multipolygon_polygon_finish"
                          ELSE ~FinishBefore(k)

\* an area whose rings are an inner ring, then two outer rings
C11_Witness ==
    /\ Ended({"create_multipolygon"})
    /\ result.kind = "value"
    /\ Len(call.items) = 3
    /\ call.items[1].type = "inner_ring"
    /\ call.items[2].type = "outer_ring"
    /\ call.items[3].type = "outer_ring"
    /\ CountOp("multipolygon_polygon_finish") = 2


LinestringOps == {"create_linestring", "create_linestring_way"}

PolygonOps == {"create_polygon", "create_polygon_way"}

\* the backend's start, add-point and finish operation of the call's build
StartOp == IF call.op \in LinestringOps THEN "linestring_start" ELSE "polygon_start"

AddOp ==
    IF call.op \in LinestringOps THEN "linestring_add_location"
    ELSE "polygon_add_location"

FinishOp ==
    IF call.op \in LinestringOps THEN "linestring_finish" ELSE "polygon_finish"

\* C12: in every successful create_linestring or create_polygon call, in
\* unique and in all mode, forward and backward, the backend's start is
\* called exactly once, as the first call, before every add-point call, and
\* the count passed to finish, the last call, is the number of add-point
\* calls made since that start.
C12_FinishCountsAdds ==
    (Ended(LinestringOps \cup PolygonOps) /\ result.kind = "value") =>
        /\ Len(calls) >= 2
        /\ calls[1].op = StartOp
        /\ CountOp(StartOp) = 1
        /\ \A k \in 2..(Len(calls) - 1) : calls[k].op = AddOp
        /\ calls[Len(calls)].op = FinishOp
        /\ CountOp(FinishOp) = 1
        /\ calls[Len(calls)].n = Len(calls) - 2
        /\ calls[Len(calls)].n = Len(emitted)

\* a backward unique build that merged duplicates: fewer points than nodes
C12_Witness ==
    /\ Ended(LinestringOps \cup PolygonOps)
    /\ result.kind = "value"
    /\ call.un = "unique"
    /\ call.dir = "backward"
    /\ calls[Len(calls)].n = 2
    /\ Len(call.nodes) = 4


WayOps == {"create_linestring_way", "create_polygon_way"}

\* the call is on a way whose node list gave fewer points than its geometry
\* needs
TooFewInWay ==
    /\ Ended(WayOps)
    /\ NumAdded < IF call.op = "create_linestring_way" THEN 2 ELSE 4

MinimumMessage ==
    IF call.op = "create_linestring_way"
    THEN "need at least two points for linestring"
    ELSE "need at least four points for polygon"

WaySuffix == " (way_id=" \o ToString(call.id) \o ")"

\* C13 as stated: for every way, with any id, 0 too, whose node list yields
\* fewer than 2 emitted points create_linestring(way) fails with a
\* geometry_error whose id() is the way's id and whose what() is "need at
\* least two points for linestring (way_id=<id>)"; the same for
\* create_polygon(way), fewer than 4 points and the four-point message.
C13_WayIdAlwaysInMessage ==
    TooFewInWay =>
        /\ result.kind = "geometry_error"
        /\ id(result.e) = call.id
        /\ what(result.e) = MinimumMessage \o WaySuffix

\* C13, amended: for every way whose node list yields fewer than 2 emitted
\* points create_linestring(way) fails with a geometry_error whose id() is
\* the way's id; its what() is "need at least two points for linestring
\* (way_id=<id>)" when the way's id is not 0 and the message without suffix
\* when it is 0; the same for create_polygon(way), fewer than 4 points and
\* the four-point message.
C13_WayIdInMessageUnlessZero ==
    TooFewInWay =>
        /\ result.kind = "geometry_error"
        /\ id(result.e) = call.id
        /\ what(result.e) = IF call.id = 0 THEN MinimumMessage
                            ELSE MinimumMessage \o WaySuffix

\* a way with id 2 whose two nodes merge into one point
C13_Witness ==
    /\ TooFewInWay
    /\ call.op = "create_linestring_way"
    /\ call.id = 2
    /\ Len(call.nodes) = 2
    /\ NumAdded = 1
    /\ what(result.e) = "need at least two points for linestring (way_id=2)"


EntityOps == {"create_point_node", "create_point_node_ref",
              "create_linestring_way", "create_polygon_way",
              "create_multipolygon"}

\* the backend raised in this call: the call's last backend call is the one
\* in which it raises
BackendRaised == m_impl.throws # "none" /\ Len(calls) = m_impl.at

\* the projection raised in this create_point call
ProjectionRaisedOnPoint ==
    /\ call.op \in {"create_point_node", "create_point_node_ref"}
    /\ m_projection.throws # "none"
    /\ LocationEq(call.nodes[1], undefinedLocation)

\* C14: a failure raised by the projection or by the backend that is not a
\* geometry_error leaves create_point on a node or node reference,
\* create_linestring and create_polygon on a way and create_multipolygon as
\* it was raised: of the same kind, with the same content, without entity
\* kind or id attached, and never as a geometry_error.
C14_FailurePassesThrough ==
    Ended(EntityOps) =>
        /\ BackendRaised => result.kind = "backend_error"
        /\ ProjectionRaisedOnPoint => result.kind = "projection_error"
        /\ result.kind = "backend_error" =>
              /\ result.e = BackendException
              /\ history = <<>>
        /\ result.kind = "projection_error" =>
              /\ result.e = OtherException
              /\ history = <<>>
        /\ result.kind = "geometry_error" =>
              Head(result.e.m_message) \in
                  {"need at least two points for linestring",
                   "need at least four points for polygon",
                   "invalid area"}

\* the backend raises inside a ring of the area with id 1
C14_Witness ==
    /\ Ended({"create_multipolygon"})
    /\ call.id = 1
    /\ BackendRaised
    /\ calls[Len(calls)].op = "multipolygon_add_location"
    /\ result.kind = "backend_error"
    /\ what(result.e) = "backend failed"


\* the positions of a node list, visited in the order range, whose Location
\* differs from the Location of the node visited just before (from the
\* undefined Location for the node visited first): a function of the
\* Locations alone
KeptPositions(nodes, range) ==
    {range[k] : k \in {l \in 1..Len(range) :
        ~LocationEq(nodes[range[l]],
                    IF l = 1 THEN undefinedLocation ELSE nodes[range[l - 1]])}}

CallRange ==
    IF call.dir = "forward" THEN ForwardRange(call.nodes)
    ELSE BackwardRange(call.nodes)

\* the positions of the nodes emitted for the ring (or node list) r
EmittedPositions(r) ==
    {emitted[k][2] : k \in {l \in 1..Len(emitted) : emitted[l][1] = r}}

\* C15: deduplication in unique mode is decided on the Locations alone,
\* never on the projected Coordinates: under the identity projection and
\* under a projection that maps all Locations to the same Coordinates the
\* positions emitted for a node list, their number and the outcome (value or
\* error) are the same function of the Locations; consecutive nodes with
\* different Locations are both emitted, consecutive nodes with equal
\* Locations are merged.
C15_DedupOnLocations ==
    /\ (Ended({"create_linestring", "create_polygon"}) /\ call.un = "unique") =>
          LET kept == KeptPositions(call.nodes, CallRange)
          IN  /\ EmittedPositions(0) = kept
              /\ Len(emitted) = Cardinality(kept)
              /\ NumAdded = Cardinality(kept)
              /\ result.kind = "value" <=>
                     Cardinality(kept) >=
                         IF call.op = "create_linestring" THEN 2 ELSE 4
              /\ \A k \in 1..Len(emitted) :
                     calls[k + 1].c = Project(call.nodes[emitted[k][2]]).c
    /\ Ended({"create_multipolygon"}) =>
          /\ \A r \in 1..Len(call.items) :
                EmittedPositions(r) =
                    KeptPositions(call.items[r].nodes,
                                  ForwardRange(call.items[r].nodes))
          /\ NumAdded = Len(emitted)

\* under the projection that maps all Locations to the same Coordinates: two
\* nodes with different Locations are both emitted, with equal Coordinates,
\* and the third node, equal to the second, is merged
C15_Witness ==
    /\ Ended({"create_linestring"})
    /\ m_projection.name = "collapse"
    /\ call.un = "unique"
    /\ call.dir = "forward"
    /\ Len(call.nodes) = 3
    /\ ~LocationEq(call.nodes[1], call.nodes[2])
    /\ LocationEq(call.nodes[2], call.nodes[3])
    /\ emitted = <<<<0, 1>>, <<0, 2>>>>
    /\ calls[2].c = calls[3].c
    /\ result.kind = "value"


\* C16: a create_linestring or create_polygon call that fails its minimum
\* count has called the backend's start and one add-point per emitted point
\* but no finish; over every sequence of calls on one engine the linestring
\* (polygon) starts minus the linestring (polygon) finishes are the failed
\* create_linestring (create_polygon) calls; and every call, the one after a
\* failed call too, begins with start, no finish before it.
C16_FailedBuildStaysOpen ==
    /\ tally.linestring_start - tally.linestring_finish = tally.linestring_failed
    /\ tally.polygon_start - tally.polygon_finish = tally.polygon_failed
    /\ Ended(LinestringOps \cup PolygonOps) =>
          /\ calls[1].op = StartOp
          /\ CountOp(StartOp) = 1
          /\ result.kind # "value" =>
                /\ result.kind = "geometry_error"
                /\ CountOp(FinishOp) = 0
                /\ CountOp(AddOp) = Len(emitted)
                /\ Len(calls) = 1 + Len(emitted)

\* a create_linestring call that returned its value on an engine whose
\* call before it failed after one point: one build of the backend is open
C16_Witness ==
    /\ Ended(LinestringOps)
    /\ result.kind = "value"
    /\ tally.n_calls = 2
    /\ tally.linestring_failed = 1
    /\ tally.linestring_start = 2
    /\ tally.linestring_finish = 1
    /\ calls[1].op = "linestring_start"


\* the node at position p of the item r was emitted
WasEmitted(r, p) == \E k \in 1..Len(emitted) : emitted[k] = <<r, p>>

\* the Location emitted last for the ring r before its position p; the
\* undefined Location, the state after the reset, when none was
LastEmittedBefore(r, p) ==
    LET before == {q \in 1..(p - 1) : WasEmitted(r, q)}
    IN  IF before = {} THEN undefinedLocation
        ELSE call.items[r].nodes[CHOOSE q \in before : \A o \in before : o <= q]

\* the Location emitted last for the rings before the item r
LastEmittedOfEarlier(r) ==
    LET before == {k \in 1..Len(emitted) : emitted[k][1] < r}
    IN  IF before = {} THEN undefinedLocation
        ELSE LET e == emitted[CHOOSE k \in before : \A o \in before : o <= k]
             IN  call.items[e[1]].nodes[e[2]]

\* C17: in create_multipolygon the deduplication starts anew with every
\* ring: a node of a ring is emitted exactly when its Location differs from
\* the Location emitted last before it for the same ring, and the first node
\* of a ring is emitted whenever its Location is defined, also when that
\* Location is the one emitted last for the ring before.
C17_DedupResetPerRing ==
    Ended({"create_multipolygon"}) =>
        \A r \in 1..Len(call.items) :
            LET nodes == call.items[r].nodes
            IN  /\ \A p \in 1..Len(nodes) :
                      WasEmitted(r, p) <=>
                          ~LocationEq(nodes[p], LastEmittedBefore(r, p))
                /\ (nodes # <<>> /\ ~LocationEq(nodes[1], undefinedLocation)) =>
                      WasEmitted(r, 1)

\* the second ring begins with the Location the first ring ended with, and
\* the node is emitted
C17_Witness ==
    /\ Ended({"create_multipolygon"})
    /\ Len(call.items) = 2
    /\ IsRing(call.items[1])
    /\ IsRing(call.items[2])
    /\ Len(call.items[1].nodes) = 2
    /\ Len(call.items[2].nodes) = 1
    /\ WasEmitted(1, 2)
    /\ LocationEq(call.items[2].nodes[1], LastEmittedOfEarlier(2))
    /\ WasEmitted(2, 1)
    /\ NumAdded = 3


IsUndefined(location) == LocationEq(location, undefinedLocation)

\* of the nodes with an undefined Location, visited in the order range,
\* exactly those are emitted that are visited just after a node with a
\* defined Location: none before the first defined one, one per run after it
UndefinedOncePerRun(r, nodes, range) ==
    \A k \in 1..Len(range) :
        IsUndefined(nodes[range[k]]) =>
            (WasEmitted(r, range[k]) <=>
                (k > 1 /\ ~IsUndefined(nodes[range[k - 1]])))

NumEmittedOf(r) == Cardinality({k \in 1..Len(emitted) : emitted[k][1] = r})

\* C19: create_multipolygon applies no minimum point count to its rings: a
\* ring that gives no point or one point still gets its ring start and
\* finish calls and counts as a ring, and the call returns the multipolygon;
\* the only geometry_error of create_multipolygon is "invalid area", for an
\* area without outer and inner ring items.
C19_NoMinimumForRings ==
    Ended({"create_multipolygon"}) =>
        /\ result.kind \in {"value", "geometry_error"}
        /\ result.kind = "geometry_error" <=> Rings(call.items) = <<>>
        /\ result.kind = "geometry_error" =>
              Head(result.e.m_message) = "invalid area"
        /\ CountOp("multipolygon_outer_ring_start") = NumOuter(call.items)
        /\ CountOp("multipolygon_outer_ring_finish") = NumOuter(call.items)
        /\ CountOp("multipolygon_inner_ring_start")
               = Len(Rings(call.items)) - NumOuter(call.items)
        /\ CountOp("multipolygon_inner_ring_finish")
               = Len(Rings(call.items)) - NumOuter(call.items)

\* an area of an empty outer ring and an inner ring of two equal nodes
C19_Witness ==
    /\ Ended({"create_multipolygon"})
    /\ Len(call.items) = 2
    /\ call.items[1].type = "outer_ring"
    /\ call.items[1].nodes = <<>>
    /\ call.items[2].type = "inner_ring"
    /\ Len(call.items[2].nodes) = 2
    /\ NumEmittedOf(1) = 0
    /\ NumEmittedOf(2) = 1
    /\ CountOp("multipolygon_outer_ring_finish") = 1
    /\ CountOp("multipolygon_inner_ring_finish") = 1
    /\ result.kind = "value"

====
